---- MODULE Spec2Model ----
(***************************************************************************)
(* Model of build.py: version catalog, thread-pool fan-out of converter    *)
(* invocations, and promotion of the latest patch into its minor slot.     *)
(*                                                                         *)
(* A tag or version is the sequence of its dot-separated tokens with the   *)
(* leading "v" left implicit: "v1.7.0" is <<"1","7","0">>, "v1.8.0-rc" is  *)
(* <<"1","8","0-rc">>, "master" is <<"master">>.  A directory             *)
(* kubernetes-api/<name> is named by the same token sequence, so the minor *)
(* slot v1.7 and the output directory of a tag v1.7 are the same path.     *)
(***************************************************************************)
EXTENDS Integers, Sequences, FiniteSets, TLC

\* ------------------------------------------------------------- bounds
\* tags the remote source holds in a modelled run of main()
MaxTags == 2
\* tags the remote source holds when only the catalog step is run
MaxRemote == 3
\* versions passed to copy_latest_patch_versions_to_minor when it is run alone
MaxPromote == 3
\* directories that exist before the run
MaxPre == 1
\* components of a version handed to version_compare when it is run alone
MaxParts == 3
\* .json files in the output directory when the post-step is run alone
MaxJson == 2
\* worker threads of the pool (ThreadPoolExecutor() sizes it from the CPU count)
max_workers == 2

\* ------------------------------------------------------------- tokens
\* int(token) for the tokens that int() accepts
IntOf ==
  ("0" :> 0) @@ ("1" :> 1) @@ ("2" :> 2) @@ ("6" :> 6) @@ ("7" :> 7)
  @@ ("8" :> 8) @@ ("10" :> 10)

\* first character of a token (the character after "v" when it leads a tag)
LeadingChar ==
  ("0" :> "0") @@ ("1" :> "1") @@ ("2" :> "2") @@ ("6" :> "6") @@ ("7" :> "7")
  @@ ("8" :> "8") @@ ("10" :> "1") @@ ("x" :> "x") @@ ("0-rc" :> "0")
  @@ ("master" :> "m")

\* tokens that contain the character "-"
HyphenTokens == {"0-rc"}

master == <<"master">>

EARLIEST_API_VERSION == <<"1", "7", "0">>
LATEST_API_VERSION == <<"2", "0", "0">>

\* the tags the remote source may hold
RemoteTags ==
  { <<"1", "6", "0">>, <<"1", "7">>, <<"1", "7", "0">>, <<"1", "7", "1">>,
    <<"1", "8", "0">>, <<"1", "8", "0-rc">>, <<"1", "x">>,
    <<"2", "0", "0">>, <<"10", "0", "0">>, <<"master">> }

\* the tags of a modelled run of main(): the in-range tags, a pre-release tag and
\* a tag that does not parse
RunTags ==
  { <<"1", "7">>, <<"1", "7", "0">>, <<"1", "7", "1">>, <<"1", "8", "0">>,
    <<"1", "8", "0-rc">>, <<"1", "x">> }

\* ------------------------------------------------------------- pure functions
\* "-" in v
HasHyphen(v) == \E k \in 1..Len(v) : v[k] \in HyphenTokens

\* list(map(int, v.strip("v").split("."))) does not raise ValueError
Parses(v) == \A k \in 1..Len(v) : v[k] \in DOMAIN IntOf

\* list(map(int, v.strip("v").split(".")))
Parts(v) == [k \in 1..Len(v) |-> IntOf[v[k]]]

\* the while loops appending 0
Pad(p, n) == [k \in 1..n |-> IF k <= Len(p) THEN p[k] ELSE 0]

SetMin(S) == CHOOSE x \in S : \A y \in S : x <= y

\* zip() over lists that were not padded stops at the shorter one
version_compareMut(v1, v2) ==
  LET n == IF Len(v1) < Len(v2) THEN Len(v1) ELSE Len(v2)
      a == Parts(v1)
      b == Parts(v2)
      diff == {k \in 1..n : a[k] # b[k]}
  IN IF diff = {} THEN 0
     ELSE IF a[SetMin(diff)] < b[SetMin(diff)] THEN -1 ELSE 1

version_compare(v1, v2) ==
  LET n == IF Len(v1) < Len(v2) THEN Len(v2) ELSE Len(v1)
      a == Pad(Parts(v1), n)
      b == Pad(Parts(v2), n)
      diff == {k \in 1..n : a[k] # b[k]}
  IN IF diff = {} THEN 0
     ELSE IF a[SetMin(diff)] < b[SetMin(diff)] THEN -1 ELSE 1

\* tag["ref"].startswith("refs/tags/v1")
Prefix(t) == LeadingChar[t[1]] = "1"

\* version_compare(v, EARLIEST_API_VERSION) >= 0 and version_compare(v, LATEST_API_VERSION) <= 0
InRangeMut(v) ==
  /\ version_compare(v, EARLIEST_API_VERSION) > 0
  /\ version_compare(v, LATEST_API_VERSION) <= 0

InRange(v) ==
  /\ version_compare(v, EARLIEST_API_VERSION) >= 0
  /\ version_compare(v, LATEST_API_VERSION) <= 0

\* the tags the comprehension of main() hands to version_compare: "and"
\* evaluates "-" not in v first and stops there when it is false
ComparedMut(tags) == tags

Compared(tags) == {v \in tags : ~HasHyphen(v)}

\* the list comprehension of main(): the tags it keeps
Filtered(tags) == {v \in Compared(tags) : InRange(v)}

\* the comprehension calls version_compare on every hyphen-free tag; one that
\* does not parse raises ValueError
FilterRaises(tags) == \E v \in Compared(tags) : ~Parses(v)

\* every argument of the version_compare calls of the comprehension
FilterCalls(tags) ==
  Compared(tags)
  \cup (IF Compared(tags) = {} THEN {} ELSE {EARLIEST_API_VERSION})
  \cup (IF \E v \in Compared(tags) :
              Parses(v) /\ version_compare(v, EARLIEST_API_VERSION) >= 0
        THEN {LATEST_API_VERSION} ELSE {})

\* Python's list < list on the sort keys: first difference, a proper prefix is less
KeyLessMut(a, b) ==
  LET n == IF Len(a) < Len(b) THEN Len(a) ELSE Len(b)
      diff == {k \in 1..n : a[k] # b[k]}
  IN IF diff = {} THEN Len(a) > Len(b)
     ELSE a[SetMin(diff)] > b[SetMin(diff)]

KeyLess(a, b) ==
  LET n == IF Len(a) < Len(b) THEN Len(a) ELSE Len(b)
      diff == {k \in 1..n : a[k] # b[k]}
  IN IF diff = {} THEN Len(a) < Len(b)
     ELSE a[SetMin(diff)] < b[SetMin(diff)]

\* versions.sort(key=...): the sort keys of the tags above are pairwise distinct,
\* so the sorted list does not depend on the order the remote lists them in
RECURSIVE SortVersions(_)
SortVersions(S) ==
  IF S = {} THEN <<>>
  ELSE LET m == CHOOSE x \in S : \A y \in S \ {x} : KeyLess(Parts(x), Parts(y))
       IN <<m>> \o SortVersions(S \ {m})

\* ".".join(v.split(".")[:2])
Minor(v) == SubSeq(v, 1, IF Len(v) < 2 THEN Len(v) ELSE 2)

Range(s) == {s[k] : k \in 1..Len(s)}

\* ------------------------------------------------------------- filesystem
Dirs == RemoteTags \cup {Minor(t) : t \in RemoteTags} \cup {master}

Absent == [origin |-> <<>>, state |-> "absent"]

\* a directory left by an earlier run
Old(d) == [origin |-> d, state |-> "old"]

\* directories that may exist before a run of main()
PreDirs == { <<"1", "7">>, <<"1", "7", "0">>, <<"1", "7", "1">>, master }

\* directories that may exist when copy_latest_patch_versions_to_minor is called
PromoteDirs ==
  { <<"1", "7">>, <<"1", "7", "0">>, <<"1", "7", "1">>, <<"1", "8">>,
    <<"1", "8", "0">> }

Exists(f, d) == f[d] # Absent

\* rm -rf d
RmRf(f, d) == [f EXCEPT ![d] = Absent]

\* cp -r src/ dst/ : an absent dst becomes a copy of src, an existing dst
\* receives src as a subdirectory and keeps what it held
CpR(f, src, dst) ==
  [f EXCEPT ![dst] = IF Exists(f, dst)
                       THEN [origin |-> f[dst].origin, state |-> "merged"]
                       ELSE f[src]]

VARIABLES
  remote,     \* tags held by the remote source
  fs,         \* kubernetes-api/: directory name -> contents
  fs0,        \* fs when main() started
  pc,         \* position of the main thread
  crashAt,    \* the step whose exception ended main(), or "none"
  tag_refs,   \* result of get_kubernetes_api_versions()
  versions,   \* main()'s list
  i,          \* index of the submit loop
  futures,    \* versions submitted to the pool, in submission order
  task,       \* version -> state of its future
  outcome,    \* version -> how its openapi2jsonschema call ended
  invoked,    \* versions whose converter (docker run) was started
  logged,     \* version -> what the collection loop logged for it
  latest,     \* minor_version_to_latest_patch
  keys,       \* its keys in insertion order
  j,          \* index of the copy loop
  copied,     \* <<minor, patch>> pairs copied ("Copied latest patch ...")
  failedAt,   \* minor versions whose rm or cp failed
  compared,   \* every argument version_compare was called with in the run
  cmp_args,   \* three versions handed to version_compare when it is run alone
  cmp_res,    \* cmp_res[x][y] = version_compare(cmp_args[x], cmp_args[y])
  files,      \* the post-step run alone: directory entry -> contents of the file
  n_pc,       \* its position
  n_todo,     \* entries os.listdir returned that the loop has not reached
  n_cur,      \* the entry the loop is at
  n_failed,   \* entries for which jq exited non-zero
  num_sorted  \* num_sorted

vars ==
  << remote, fs, fs0, pc, crashAt, tag_refs, versions, i, futures, task,
     outcome, invoked, logged, latest, keys, j, copied, failedAt, compared,
     cmp_args, cmp_res, files, n_pc, n_todo, n_cur, n_failed, num_sorted >>

catalogVars == << tag_refs, versions >>
poolVars == << i, futures, task, outcome, invoked, logged >>
promoVars == << latest, keys, j, copied, failedAt >>
cmpVars == << cmp_args, cmp_res >>
normVars == << files, n_pc, n_todo, n_cur, n_failed, num_sorted >>

NoRun ==
  /\ fs0 = fs
  /\ crashAt = "none"
  /\ i = 1
  /\ futures = <<>>
  /\ task = [v \in Dirs |-> "none"]
  /\ outcome = [v \in Dirs |-> "none"]
  /\ invoked = {}
  /\ logged = [v \in Dirs |-> "none"]
  /\ latest = <<>>
  /\ keys = <<>>
  /\ j = 1
  /\ copied = {}
  /\ failedAt = {}
  /\ compared = {}

\* version_compare is not being run alone
CmpIdle == cmp_args = <<>> /\ cmp_res = <<>>

NoEntry == [name |-> "", json |-> FALSE]

\* the post-step is not being run alone
NormIdle ==
  /\ files = <<>>
  /\ n_pc = "idle"
  /\ n_todo = {}
  /\ n_cur = NoEntry
  /\ n_failed = {}
  /\ num_sorted = 0

\* main() is called: the remote holds at most n of the tags, at most MaxPre
\* directories are left from earlier runs
InitMain(tags, n) ==
  /\ remote \in {S \in SUBSET tags : Cardinality(S) <= n}
  /\ \E P \in {Q \in SUBSET PreDirs : Cardinality(Q) <= MaxPre} :
       fs = [d \in Dirs |-> IF d \in P THEN Old(d) ELSE Absent]
  /\ pc = "fetch"
  /\ tag_refs = {}
  /\ versions = <<>>
  /\ NoRun
  /\ CmpIdle
  /\ NormIdle

Init == InitMain(RunTags, MaxTags)

InitCatalog == InitMain(RemoteTags, MaxRemote)

\* copy_latest_patch_versions_to_minor is called on its own, as main() calls it:
\* with a filtered, sorted list of versions and any set of directories on disk
InitPromote ==
  /\ remote \in {S \in SUBSET Filtered({t \in RunTags : Prefix(t) /\ Parses(t)}) :
                   Cardinality(S) <= MaxPromote}
  /\ \E P \in SUBSET PromoteDirs :
       fs = [d \in Dirs |-> IF d \in P THEN Old(d) ELSE Absent]
  /\ pc = "promote"
  /\ tag_refs = remote
  /\ versions = Append(SortVersions(remote), master)
  /\ NoRun
  /\ CmpIdle
  /\ NormIdle

\* ------------------------------------------------------------- catalog
\* get_kubernetes_api_versions() returns
Fetch ==
  /\ pc = "fetch"
  /\ tag_refs' = {t \in remote : Prefix(t)}
  /\ pc' = "filter"
  /\ UNCHANGED << remote, compared, cmpVars, normVars, fs, fs0, crashAt, versions, poolVars, promoVars >>

\* request.urlopen or json.loads raises
FetchRaises ==
  /\ pc = "fetch"
  /\ pc' = "crashed"
  /\ crashAt' = "fetch"
  /\ UNCHANGED << remote, compared, cmpVars, normVars, fs, fs0, catalogVars, poolVars, promoVars >>

\* filter, sort, append "master"
FilterSort ==
  /\ pc = "filter"
  /\ ~FilterRaises(tag_refs)
  /\ versions' = Append(SortVersions(Filtered(tag_refs)), master)
  /\ pc' = "rm_master"
  /\ compared' = compared \cup FilterCalls(tag_refs)
  /\ UNCHANGED << remote, cmpVars, normVars, fs, fs0, crashAt, tag_refs, poolVars, promoVars >>

\* version_compare raises ValueError inside the comprehension
FilterRaiseMut ==
  /\ pc = "filter"
  /\ FilterRaises(tag_refs)
  /\ fs' = RmRf(fs, master)
  /\ pc' = "crashed"
  /\ crashAt' = "filter"
  /\ compared' = compared \cup FilterCalls(tag_refs)
  /\ UNCHANGED << remote, cmpVars, normVars, fs0, catalogVars, poolVars, promoVars >>

FilterRaise ==
  /\ pc = "filter"
  /\ FilterRaises(tag_refs)
  /\ pc' = "crashed"
  /\ crashAt' = "filter"
  /\ compared' = compared \cup FilterCalls(tag_refs)
  /\ UNCHANGED << remote, cmpVars, normVars, fs, fs0, catalogVars, poolVars, promoVars >>

\* if master_path.exists(): rm -rf (check=True)
RemoveMasterMut ==
  /\ pc = "rm_master"
  /\ pc' = "submit"
  /\ UNCHANGED << remote, compared, cmpVars, normVars, fs, fs0, crashAt, catalogVars, poolVars, promoVars >>

RemoveMaster ==
  /\ pc = "rm_master"
  /\ \/ /\ ~Exists(fs, master)
        /\ pc' = "submit"
        /\ UNCHANGED << fs, crashAt >>
     \/ /\ Exists(fs, master)
        /\ fs' = RmRf(fs, master)
        /\ pc' = "submit"
        /\ UNCHANGED crashAt
     \/ /\ Exists(fs, master)
        /\ pc' = "crashed"
        /\ crashAt' = "rm_master"
        /\ UNCHANGED fs
  /\ UNCHANGED << remote, compared, cmpVars, normVars, fs0, catalogVars, poolVars, promoVars >>

\* ------------------------------------------------------------- fan-out
\* out_path_version.exists() and version not in {"master"}
SkipRuleMut(f, v) == FALSE

SkipRule(f, v) == Exists(f, v) /\ v # master

Submitted == Range(futures)

\* one iteration of "for version in versions": skip, or tpe.submit(...)
SubmitStep ==
  /\ pc = "submit"
  /\ i <= Len(versions)
  /\ LET v == versions[i] IN
       IF SkipRule(fs, v)
       THEN UNCHANGED << futures, task >>
       ELSE /\ futures' = Append(futures, v)
            /\ task' = [task EXCEPT ![v] = "pending"]
  /\ i' = i + 1
  /\ UNCHANGED << remote, compared, cmpVars, normVars, fs, fs0, pc, crashAt, catalogVars, outcome, invoked,
                  logged, promoVars >>

\* the for loop ends; main() enters "for future in as_completed(futures)"
SubmitDoneMut ==
  /\ pc = "submit"
  /\ i > Len(versions)
  /\ pc' = "promote"
  /\ UNCHANGED << remote, compared, cmpVars, normVars, fs, fs0, crashAt, catalogVars, poolVars, promoVars >>

SubmitDone ==
  /\ pc = "submit"
  /\ i > Len(versions)
  /\ pc' = "collect"
  /\ UNCHANGED << remote, compared, cmpVars, normVars, fs, fs0, crashAt, catalogVars, poolVars, promoVars >>

\* futures a worker thread is executing
Busy == {v \in Submitted : task[v] \in {"running", "post"}}

\* the work queue is FIFO: the next future a free worker takes
NextPending(v) ==
  \E k \in 1..Len(futures) :
    /\ futures[k] = v
    /\ task[v] = "pending"
    /\ \A m \in 1..(k - 1) : task[futures[m]] # "pending"

\* a worker takes the future and starts docker run (subprocess.run, line 70)
TaskStartMut(v) ==
  /\ NextPending(v)
  /\ task' = [task EXCEPT ![v] = "running"]
  /\ invoked' = invoked \cup {v}
  /\ UNCHANGED << remote, compared, cmpVars, normVars, fs, fs0, pc, crashAt, catalogVars, i, futures,
                  outcome, logged, promoVars >>

TaskStart(v) ==
  /\ NextPending(v)
  /\ Cardinality(Busy) < max_workers
  /\ task' = [task EXCEPT ![v] = "running"]
  /\ invoked' = invoked \cup {v}
  /\ UNCHANGED << remote, compared, cmpVars, normVars, fs, fs0, pc, crashAt, catalogVars, i, futures,
                  outcome, logged, promoVars >>

\* the "-o" argument of a task: f"{str(out_path)}/{version}" (line 214), named
\* by its last component
OutDirMut(v) == master

OutDir(v) == v

\* how the converter can end: exit 0 with its output directory written, exit 0
\* without one, non-zero after writing part of its output, non-zero before
ConverterOutcomes == {"ok", "ok_nodir", "fail_dir", "fail_nodir"}

\* docker run ends; check=True raises CalledProcessError on a non-zero exit,
\* which openapi2jsonschema logs and re-raises (lines 72-74)
ConverterExit(v, o) ==
  /\ task[v] = "running"
  /\ fs' = CASE o = "ok" ->
                    [fs EXCEPT ![OutDir(v)] = [origin |-> v, state |-> "raw"]]
             [] o = "fail_dir" ->
                    [fs EXCEPT ![OutDir(v)] = [origin |-> v, state |-> "partial"]]
             [] OTHER -> fs
  /\ IF o \in {"ok", "ok_nodir"}
     THEN /\ task' = [task EXCEPT ![v] = "post"]
          /\ UNCHANGED outcome
     ELSE /\ task' = [task EXCEPT ![v] = "done"]
          /\ outcome' = [outcome EXCEPT ![v] = "CalledProcessError"]
  /\ UNCHANGED << remote, compared, cmpVars, normVars, fs0, pc, crashAt, catalogVars, i, futures, invoked,
                  logged, promoVars >>

\* the post-step (lines 77-99): os.listdir raises OSError when the directory is
\* absent or unreadable, else every .json file is rewritten with sorted keys
Normalize(v) ==
  /\ task[v] = "post"
  /\ \/ /\ Exists(fs, OutDir(v))
        /\ fs' = [fs EXCEPT ![OutDir(v)] = [origin |-> v, state |-> "sorted"]]
        /\ outcome' = [outcome EXCEPT ![v] = "ok"]
     \/ /\ outcome' = [outcome EXCEPT ![v] = "OSError"]
        /\ UNCHANGED fs
  /\ task' = [task EXCEPT ![v] = "done"]
  /\ UNCHANGED << remote, compared, cmpVars, normVars, fs0, pc, crashAt, catalogVars, i, futures, invoked,
                  logged, promoVars >>

\* except subprocess.CalledProcessError (line 275)
CaughtMut(o) == FALSE

Caught(o) == o = "CalledProcessError"

\* as_completed yields a finished future; future.result() returns or raises
Collect(v) ==
  /\ pc = "collect"
  /\ v \in Submitted
  /\ task[v] = "done"
  /\ logged[v] = "none"
  /\ IF outcome[v] = "ok"
     THEN /\ logged' = [logged EXCEPT ![v] = "success"]
          /\ UNCHANGED << pc, crashAt >>
     ELSE IF Caught(outcome[v])
     THEN /\ logged' = [logged EXCEPT ![v] = "error"]
          /\ UNCHANGED << pc, crashAt >>
     ELSE /\ pc' = "unwind"
          /\ crashAt' = "fanout"
          /\ UNCHANGED logged
  /\ UNCHANGED << remote, compared, cmpVars, normVars, fs, fs0, catalogVars, i, futures, task, outcome,
                  invoked, promoVars >>

AllTasksDone == \A v \in Submitted : task[v] = "done"

\* as_completed is exhausted and the with block exits (shutdown(wait=True))
ExitPool ==
  /\ pc = "collect"
  /\ \A v \in Submitted : logged[v] # "none"
  /\ AllTasksDone
  /\ pc' = "promote"
  /\ UNCHANGED << remote, compared, cmpVars, normVars, fs, fs0, crashAt, catalogVars, poolVars, promoVars >>

\* an exception leaves the with block: shutdown(wait=True) still waits for
\* every future, then the exception ends main()
Unwind ==
  /\ pc = "unwind"
  /\ AllTasksDone
  /\ pc' = "crashed"
  /\ UNCHANGED << remote, compared, cmpVars, normVars, fs, fs0, crashAt, catalogVars, poolVars, promoVars >>

\* ------------------------------------------------------------- promotion
\* version_compare(v, minor_version_to_latest_patch[minor_version]) > 0
NewerMut(v, cur) == version_compare(v, cur) < 0

Newer(v, cur) == version_compare(v, cur) > 0

\* the first loop of copy_latest_patch_versions_to_minor (lines 111-123) over
\* the versions vs, with the dict built so far as its keys ks (insertion order)
\* and its mapping lt
RECURSIVE ScanVersions(_, _, _, _)
ScanVersions(f, vs, ks, lt) ==
  IF vs = <<>> THEN [keys |-> ks, latest |-> lt]
  ELSE LET v == Head(vs)
           m == Minor(v)
       IN IF ~Exists(f, v) THEN ScanVersions(f, Tail(vs), ks, lt)
          ELSE IF m \notin DOMAIN lt
          THEN ScanVersions(f, Tail(vs), Append(ks, m), lt @@ (m :> v))
          ELSE IF Newer(v, lt[m])
          THEN ScanVersions(f, Tail(vs), ks, [lt EXCEPT ![m] = v])
          ELSE ScanVersions(f, Tail(vs), ks, lt)

\* every argument of the version_compare calls of that loop (line 122)
RECURSIVE ScanCalls(_, _, _)
ScanCalls(f, vs, lt) ==
  IF vs = <<>> THEN {}
  ELSE LET v == Head(vs)
           m == Minor(v)
       IN IF ~Exists(f, v) THEN ScanCalls(f, Tail(vs), lt)
          ELSE IF m \notin DOMAIN lt
          THEN ScanCalls(f, Tail(vs), lt @@ (m :> v))
          ELSE {v, lt[m]}
               \cup ScanCalls(f, Tail(vs),
                              IF Newer(v, lt[m]) THEN [lt EXCEPT ![m] = v] ELSE lt)

\* [v for v in versions if v not in {"master"}]
NonMaster(vs) == SelectSeq(vs, LAMBDA v : v # master)

\* copy_latest_patch_versions_to_minor is called and runs its first loop
PromoteScan ==
  /\ pc = "promote"
  /\ LET r == ScanVersions(fs, NonMaster(versions), <<>>, <<>>) IN
       /\ keys' = r.keys
       /\ latest' = r.latest
  /\ j' = 1
  /\ pc' = "copy"
  /\ compared' = compared \cup ScanCalls(fs, NonMaster(versions), <<>>)
  /\ UNCHANGED << remote, cmpVars, normVars, fs, fs0, crashAt, catalogVars, poolVars, copied,
                  failedAt >>

\* if minor_version_path.exists() (line 131)
RmNeeded(f, m) == Exists(f, m)

\* one iteration of the second loop (lines 127-139): rm -rf of an existing
\* slot, then cp -r; check=True raises CalledProcessError when either fails,
\* and cp fails when its source is missing
CopyGroup(rmOk, cpOk) ==
  /\ pc = "copy"
  /\ j <= Len(keys)
  /\ LET m == keys[j]
         src == latest[m]
         f1 == IF RmNeeded(fs, m) /\ rmOk THEN RmRf(fs, m) ELSE fs
     IN IF RmNeeded(fs, m) /\ ~rmOk
        THEN /\ pc' = "crashed"
             /\ crashAt' = "promote"
             /\ failedAt' = failedAt \cup {m}
             /\ UNCHANGED << fs, copied, j >>
        ELSE IF ~cpOk \/ ~Exists(f1, src)
        THEN /\ fs' = f1
             /\ pc' = "crashed"
             /\ crashAt' = "promote"
             /\ failedAt' = failedAt \cup {m}
             /\ UNCHANGED << copied, j >>
        ELSE /\ fs' = CpR(f1, src, m)
             /\ copied' = copied \cup {<<m, src>>}
             /\ j' = j + 1
             /\ UNCHANGED << pc, crashAt, failedAt >>
  /\ UNCHANGED << remote, compared, cmpVars, normVars, fs0, catalogVars, poolVars, keys, latest >>

\* the second loop ends; copy_latest_patch_versions_to_minor and main() return
PromoteDone ==
  /\ pc = "copy"
  /\ j > Len(keys)
  /\ pc' = "done"
  /\ UNCHANGED << remote, compared, cmpVars, normVars, fs, fs0, crashAt, catalogVars, poolVars, promoVars >>

Worker ==
  \E v \in Dirs :
    \/ TaskStart(v)
    \/ \E o \in ConverterOutcomes : ConverterExit(v, o)
    \/ Normalize(v)

Promote ==
  \/ PromoteScan
  \/ \E rmOk \in BOOLEAN, cpOk \in BOOLEAN : CopyGroup(rmOk, cpOk)
  \/ PromoteDone

Next ==
  \/ Fetch \/ FetchRaises \/ FilterSort \/ FilterRaise \/ RemoveMaster
  \/ SubmitStep \/ SubmitDone
  \/ Worker
  \/ \E v \in Dirs : Collect(v)
  \/ ExitPool \/ Unwind
  \/ Promote

Spec == Init /\ [][Next]_vars

\* the catalog step of main() alone, over every tag of RemoteTags
NextCatalog == Fetch \/ FetchRaises \/ FilterSort \/ FilterRaise

SpecCatalog == InitCatalog /\ [][NextCatalog]_vars

\* copy_latest_patch_versions_to_minor alone
SpecPromote == InitPromote /\ [][Promote]_vars

\* main() is not running
MainIdle ==
  /\ remote = {}
  /\ fs = [d \in Dirs |-> Absent]
  /\ pc = "idle"
  /\ tag_refs = {}
  /\ versions = <<>>
  /\ NoRun

mainVars ==
  << remote, fs, fs0, pc, crashAt, catalogVars, poolVars, promoVars, compared >>

\* ------------------------------------------------------------- version_compare alone
CmpTokens == {"0", "1", "7"}

\* well-formed versions v1, v1.a, v1.a.b, ... of at most MaxParts components
CmpVersions ==
  UNION {{v \in [1..n -> CmpTokens] : v[1] = "1"} : n \in 1..MaxParts}

InitCompare ==
  /\ MainIdle
  /\ NormIdle
  /\ cmp_args \in CmpVersions \X CmpVersions \X CmpVersions
  /\ cmp_res = <<>>

\* version_compare is called on every pair of the three versions
Compare ==
  /\ cmp_res = <<>>
  /\ cmp_args # <<>>
  /\ cmp_res' = [x \in 1..3 |->
                   [y \in 1..3 |-> version_compare(cmp_args[x], cmp_args[y])]]
  /\ UNCHANGED << mainVars, cmp_args, normVars >>

SpecCompare == InitCompare /\ [][Compare]_vars
\* ------------------------------------------------------------- claims
V170 == <<"1", "7", "0">>
V171 == <<"1", "7", "1">>
V180 == <<"1", "8", "0">>
V17 == <<"1", "7">>

\* the fan-out phase is over: the with block was left, normally or by an exception
FanOutOver ==
  \/ pc \in {"promote", "copy", "done"}
  \/ pc = "crashed" /\ crashAt \in {"fanout", "promote"}

\* exactly one submitted task ended with CalledProcessError, the others returned
OneFailed(f) ==
  /\ f \in Submitted
  /\ outcome[f] = "CalledProcessError"
  /\ \A o \in Submitted \ {f} : outcome[o] = "ok"

\* C1: when the fan-out is over every submitted task has run its converter to
\* its end, and if the converter exited non-zero for exactly one task while the
\* others returned, the collection loop has logged an error for that task and a
\* success for each of the others.
C1_SiblingsNotCancelled ==
  FanOutOver =>
    /\ \A v \in Submitted : v \in invoked /\ task[v] = "done"
    /\ \A f \in Submitted :
         OneFailed(f) =>
           /\ logged[f] = "error"
           /\ \A o \in Submitted \ {f} : logged[o] = "success"

C1_Witness ==
  /\ pc = "promote"
  /\ Cardinality(Submitted) = 3
  /\ OneFailed(V170)

\* C2: no failure inside a conversion task leaves the fan-out phase as an
\* exception: main() is never ended by an exception raised in the fan-out.
C2_NoTaskFailureEscapes == ~(pc = "crashed" /\ crashAt = "fanout")

\* a version already handled by the submit loop
Scheduled(v) == \E k \in 1..Len(versions) : versions[k] = v /\ k < i

\* C3: until the submit loop reaches a version other than master its directory
\* is as it was when main() started; if it exists then, the version is never
\* submitted, its converter is never invoked, and its directory holds during
\* and at the end of the fan-out what it held at its start.
C3_ExistingVersionSkipped ==
  \A v \in Range(versions) \ {master} :
    /\ ~Scheduled(v) => fs[v] = fs0[v]
    /\ (Scheduled(v) /\ Exists(fs0, v)) =>
         /\ v \notin Submitted
         /\ v \notin invoked
         /\ (pc \in {"submit", "collect", "unwind", "promote"}
             \/ (pc = "crashed" /\ crashAt = "fanout")) => fs[v] = fs0[v]

C3_Witness ==
  /\ pc = "promote"
  /\ V170 \in Range(versions) /\ Exists(fs0, V170)
  /\ V171 \in invoked /\ outcome[V171] = "ok"

\* the catalog step returned a version list
CatalogOk == pc \notin {"fetch", "filter"} /\ crashAt \notin {"fetch", "filter"}

C5_Barrier ==
  /\ (pc \in {"promote", "copy", "done"} \/ crashAt = "promote") => AllTasksDone
  /\ (pc \in {"fetch", "filter"} \/ crashAt \in {"fetch", "filter"})
       => futures = <<>>

C5_Witness ==
  /\ pc = "copy"
  /\ copied # {}
  /\ Cardinality(Submitted) = 3

\* the versions of minor group m whose directory existed when
\* copy_latest_patch_versions_to_minor was called
Candidates(m) ==
  {v \in Range(NonMaster(versions)) : Minor(v) = m /\ Exists(fs0, v)}

\* C6: after copy_latest_patch_versions_to_minor returns, the slot of every
\* group that has a version with an existing directory holds exactly what the
\* directory of a greatest such version held, and that version's directory
\* exists.
C6_SlotHoldsLatestPatch ==
  pc = "done" =>
    \A m \in {Minor(v) : v \in Range(NonMaster(versions))} :
      Candidates(m) # {} =>
        \E w \in Candidates(m) :
          /\ \A u \in Candidates(m) : version_compare(u, w) <= 0
          /\ fs[m] = fs0[w]

C6_Witness ==
  /\ pc = "done"
  /\ Range(NonMaster(versions)) = {V170, V171, V180}
  /\ Exists(fs0, V170) /\ Exists(fs0, V171) /\ Exists(fs0, V180)
  /\ Exists(fs0, V17)
  /\ fs[V17] = fs0[V171]
  /\ fs[Minor(V180)] = fs0[V180]

\* C7: no minor slot is copied from the directory of a version whose
\* conversion task failed in the run.
C7_PromotedWasProduced ==
  \A p \in copied : outcome[p[2]] \notin {"CalledProcessError", "OSError"}

\* C8: when rm or cp fails for one group, every other group is still promoted
\* in the same call.
C8_PromotionFailureLocal ==
  pc \in {"done", "crashed"} =>
    \A m \in Range(keys) : m \in failedAt \/ (\E p \in copied : p[1] = m)

\* the non-master part of the list main() schedules
ScheduledList == Range(NonMaster(versions))

\* C9 as claimed: the scheduled non-master versions are exactly the hyphen-free
\* tags of the remote source within [EARLIEST_API_VERSION, LATEST_API_VERSION],
\* both ends included.
C9_ExactlyTheRange ==
  pc = "rm_master" =>
    ScheduledList =
      {v \in remote :
         /\ ~HasHyphen(v)
         /\ Parses(v)
         /\ version_compare(v, EARLIEST_API_VERSION) >= 0
         /\ version_compare(v, LATEST_API_VERSION) <= 0}

\* C9 amended: when the filter completes, the scheduled non-master versions are
\* exactly the hyphen-free tags beginning with "v1" within the range; a tag
\* equal to EARLIEST_API_VERSION is included, and the tag v2.0.0 that equals
\* LATEST_API_VERSION is never scheduled.
C9_ExactlyTheRangeOfV1Tags ==
  pc = "rm_master" =>
    /\ ScheduledList =
         {v \in remote :
            /\ LeadingChar[v[1]] = "1"
            /\ ~HasHyphen(v)
            /\ version_compare(v, EARLIEST_API_VERSION) >= 0
            /\ version_compare(v, LATEST_API_VERSION) <= 0}
    /\ LATEST_API_VERSION \notin ScheduledList

C9_Witness ==
  /\ pc = "rm_master"
  /\ remote = {EARLIEST_API_VERSION, <<"1", "6", "0">>, <<"10", "0", "0">>}
  /\ ScheduledList = {EARLIEST_API_VERSION}

\* C10: when the catalog step fails, main() has ended with the filesystem as it
\* was, nothing submitted, no converter invoked and no minor slot written.
C10_CatalogFailureLeavesNoTrace ==
  crashAt \in {"fetch", "filter"} =>
    /\ pc = "crashed"
    /\ fs = fs0
    /\ futures = <<>>
    /\ invoked = {}
    /\ copied = {}

C10_Witness ==
  /\ crashAt = "filter"
  /\ Exists(fs0, master)
  /\ remote = {V170, <<"1", "x">>}
C12_VersionDirsUntouched ==
  \A v \in Range(NonMaster(versions)) : fs[v] = fs0[v]

\* C14: the list main() schedules is ascending under version_compare over its
\* non-master entries, ends with "master", and holds "master" once.
C14_SortedThenMaster ==
  pc = "rm_master" =>
    /\ Len(versions) >= 1
    /\ versions[Len(versions)] = master
    /\ Cardinality({k \in 1..Len(versions) : versions[k] = master}) = 1
    /\ \A k \in 1..(Len(versions) - 2) :
         version_compare(versions[k], versions[k + 1]) <= 0

C14_Witness ==
  /\ pc = "rm_master"
  /\ remote = {V171, V170, V17}
  /\ versions = <<V17, V170, V171, master>>

\* C16: the converter invocations running at the same time never outnumber
\* the worker threads of the pool.
C16_PoolBound ==
  Cardinality({v \in Dirs : task[v] = "running"}) <= max_workers

C16_Witness ==
  /\ Cardinality({v \in Dirs : task[v] = "running"}) = max_workers
  /\ \E v \in Submitted : task[v] = "pending"
\* ------------------------------------------------------------- repeated runs
\* main() has ended and is run again: the directories stay, the remote holds
\* the same tags
Rerun ==
  /\ pc \in {"done", "crashed"}
  /\ pc' = "fetch"
  /\ fs0' = fs
  /\ crashAt' = "none"
  /\ tag_refs' = {}
  /\ versions' = <<>>
  /\ i' = 1
  /\ futures' = <<>>
  /\ task' = [v \in Dirs |-> "none"]
  /\ outcome' = [v \in Dirs |-> "none"]
  /\ invoked' = {}
  /\ logged' = [v \in Dirs |-> "none"]
  /\ latest' = <<>>
  /\ keys' = <<>>
  /\ j' = 1
  /\ copied' = {}
  /\ failedAt' = {}
  /\ compared' = {}
  /\ UNCHANGED << remote, fs, cmpVars, normVars >>

\* the first run of main() ever: nothing is on disk
InitRuns ==
  /\ remote \in SUBSET {<<"1", "7", "0">>, <<"1", "x">>}
  /\ fs = [d \in Dirs |-> Absent]
  /\ pc = "fetch"
  /\ tag_refs = {}
  /\ versions = <<>>
  /\ NoRun
  /\ CmpIdle
  /\ NormIdle

SpecRuns == InitRuns /\ [][Next \/ Rerun]_vars

\* ------------------------------------------------------------- the post-step alone
\* the entries an output directory may hold: .json files and one other file
DirEntries ==
  {[name |-> n, json |-> TRUE] : n \in {"a", "b", "c"}}
  \cup {[name |-> "README", json |-> FALSE]}

\* the converter has exited 0 and left its files; the loop of lines 79-95 starts
InitNormalize ==
  /\ MainIdle
  /\ CmpIdle
  /\ \E E \in SUBSET DirEntries :
       /\ Cardinality({e \in E : e.json}) <= MaxJson
       /\ files = [e \in E |-> "raw"]
  /\ n_pc = "listdir"
  /\ n_todo = {}
  /\ n_cur = NoEntry
  /\ n_failed = {}
  /\ num_sorted = 0

\* os.listdir(output_dir) (line 79)
NormListdir ==
  /\ n_pc = "listdir"
  /\ n_todo' = DOMAIN files
  /\ n_pc' = "next"
  /\ UNCHANGED << mainVars, cmpVars, files, n_cur, n_failed, num_sorted >>

\* the for loop takes the next entry, in whatever order listdir gave them, and
\* tests file.endswith(".json") (line 80)
NormNext(e) ==
  /\ n_pc = "next"
  /\ e \in n_todo
  /\ n_todo' = n_todo \ {e}
  /\ IF e.json
     THEN n_cur' = e /\ n_pc' = "jq"
     ELSE UNCHANGED << n_cur, n_pc >>
  /\ UNCHANGED << mainVars, cmpVars, files, n_failed, num_sorted >>

\* jq --sort-keys reads the file (lines 83-90); a non-zero exit raises
\* CalledProcessError, which lines 94-95 log
NormJqMut(ok) ==
  /\ n_pc = "jq"
  /\ IF ok
     THEN n_pc' = "open" /\ UNCHANGED n_failed
     ELSE n_pc' = "raised" /\ n_failed' = n_failed \cup {n_cur}
  /\ UNCHANGED << mainVars, cmpVars, files, n_todo, n_cur, num_sorted >>

NormJq(ok) ==
  /\ n_pc = "jq"
  /\ IF ok
     THEN n_pc' = "open" /\ UNCHANGED n_failed
     ELSE n_pc' = "next" /\ n_failed' = n_failed \cup {n_cur}
  /\ UNCHANGED << mainVars, cmpVars, files, n_todo, n_cur, num_sorted >>

\* open(file_path, "w") truncates the file (line 91)
NormOpen ==
  /\ n_pc = "open"
  /\ files' = [files EXCEPT ![n_cur] = "empty"]
  /\ n_pc' = "write"
  /\ UNCHANGED << mainVars, cmpVars, n_todo, n_cur, n_failed, num_sorted >>

\* outfile.write(result.stdout), the file is closed, num_sorted += 1 (lines 92-93)
NormWrite ==
  /\ n_pc = "write"
  /\ files' = [files EXCEPT ![n_cur] = "sorted"]
  /\ num_sorted' = num_sorted + 1
  /\ n_pc' = "next"
  /\ UNCHANGED << mainVars, cmpVars, n_todo, n_cur, n_failed >>

\* the loop is over: openapi2jsonschema returns result.stdout (lines 97-99)
NormReturn ==
  /\ n_pc = "next"
  /\ n_todo = {}
  /\ n_pc' = "returned"
  /\ UNCHANGED << mainVars, cmpVars, files, n_todo, n_cur, n_failed, num_sorted >>

\* the process is killed between two steps; killed while writing, the file is
\* still empty or holds the part that was flushed
NormKilled ==
  /\ n_pc \in {"next", "jq", "open", "write"}
  /\ n_pc' = "killed"
  /\ IF n_pc = "write"
     THEN \E c \in {"empty", "partial"} : files' = [files EXCEPT ![n_cur] = c]
     ELSE UNCHANGED files
  /\ UNCHANGED << mainVars, cmpVars, n_todo, n_cur, n_failed, num_sorted >>

NextNormalize ==
  \/ NormListdir
  \/ \E e \in DirEntries : NormNext(e)
  \/ \E ok \in BOOLEAN : NormJq(ok)
  \/ NormOpen
  \/ NormWrite
  \/ NormReturn
  \/ NormKilled

SpecNormalize == InitNormalize /\ [][NextNormalize]_vars

\* C13: version_compare is a total order once trailing zeros are padded: it
\* rates a version equal to itself, swapping the arguments negates the result,
\* <= is transitive, and versions that differ by trailing "0" components only
\* are rated equal.
OnlyTrailingZeros(a, b) ==
  /\ Len(a) <= Len(b)
  /\ \A k \in 1..Len(a) : a[k] = b[k]
  /\ \A k \in (Len(a) + 1)..Len(b) : b[k] = "0"

C13_TotalOrder ==
  cmp_res # <<>> =>
    /\ \A x, y \in 1..3 : cmp_res[x][y] \in {-1, 0, 1}
    /\ \A x \in 1..3 : cmp_res[x][x] = 0
    /\ \A x, y \in 1..3 : cmp_res[x][y] = 0 - cmp_res[y][x]
    /\ (cmp_res[1][2] <= 0 /\ cmp_res[2][3] <= 0) => cmp_res[1][3] <= 0
    /\ \A x, y \in 1..3 :
         OnlyTrailingZeros(cmp_args[x], cmp_args[y]) => cmp_res[x][y] = 0

C13_Witness ==
  /\ cmp_res # <<>>
  /\ cmp_args = <<V17, V170, V171>>
  /\ cmp_res[1][2] = 0
  /\ cmp_res[2][3] = -1
  /\ cmp_res[1][3] = -1

\* C15: no entry of the scheduled list contains a hyphen, and no argument of
\* a version_compare call, in the filter of main() or in the grouping loop of
\* copy_latest_patch_versions_to_minor, contains a hyphen or is "master".
C15_NoHyphenNoMaster ==
  /\ \A v \in Range(versions) : ~HasHyphen(v)
  /\ \A v \in compared : ~HasHyphen(v) /\ v # master

C15_Witness ==
  /\ pc = "done"
  /\ remote = {V170, <<"1", "8", "0-rc">>}
  /\ V170 \in compared
  /\ copied = {<<V17, V170>>}
\* C17: at every point of the post-step, and after the process is killed
\* between two of its steps, every file of the output directory holds its whole
\* content from before the normalization or its whole normalized content.
C17_FilesNeverTorn ==
  \A e \in DOMAIN files : files[e] \in {"raw", "sorted"}

\* C18: a file for which jq exited non-zero keeps the content it had, the
\* failure does not end the call with an exception, and when the call returns
\* every other .json file of the directory is normalized.
C18_JqFailureIsLocal ==
  /\ \A e \in n_failed : files[e] = "raw"
  /\ n_pc # "raised"
  /\ n_pc = "returned" =>
       \A e \in DOMAIN files : (e.json /\ e \notin n_failed) => files[e] = "sorted"

C18_Witness ==
  /\ n_pc = "returned"
  /\ Cardinality(n_failed) = 1
  /\ num_sorted = 1
  /\ \E e \in DOMAIN files : files[e] = "sorted"
\* C19: in any run of a sequence of runs that began with nothing on disk, a
\* version other than master that the directory-exists rule skipped has a
\* directory holding the normalized output of a conversion task for that
\* version that returned.
C19_SkippedOnlyAfterSuccess ==
  \A v \in Range(versions) \ {master} :
    (Scheduled(v) /\ v \notin Submitted) =>
      fs0[v] = [origin |-> v, state |-> "sorted"]
====
